---- MODULE Spec2Model ----
(***************************************************************************)
(* JsonKVStorage (lightrag/kg/json_kv_impl.py): a namespace's key-value    *)
(* store kept in a region shared by the Stores of a process group and      *)
(* flushed to a JSON snapshot file when the namespace is marked updated.   *)
(*                                                                         *)
(* Each member of Procs is one Store of one namespace together with its    *)
(* (sequential) caller.  An `async with self._storage_lock` block of such  *)
(* a Store is one atomic action: whatever else touches the region or the   *)
(* flag waits for the same lock.  What the source does outside a block, or *)
(* in two blocks, is two actions.                                          *)
(*                                                                         *)
(* The variable other is a second namespace with one Store of its own.  It *)
(* stays as it starts under Spec, SpecPre and SpecFair and acts under      *)
(* SpecNs, where its upsert is two steps so that the time it holds the     *)
(* storage lock shows.                                                     *)
(***************************************************************************)
EXTENDS Integers, Sequences, FiniteSets, TLC

\* ------------------------------------------------------------- bounds
NumProcs == 2
MaxRestarts == 1
MaxLen == 2

Procs == 1..NumProcs
Ids == {"a", "b"}
IdOrder == <<"a", "b">>
Fields == {"t"}
Vals == {1, 2}

\* A record: a mapping of fields, the empty mapping included.
Recs == UNION {[D -> Vals] : D \in SUBSET Fields}
EmptyRec == [f \in {} |-> 0]
\* A dict of records keyed by id (the region, an upsert's argument, a file's content).
Dicts == UNION {[D -> Recs] : D \in SUBSET Ids}
EmptyDict == [i \in {} |-> EmptyRec]
\* Sequences of ids of length at most MaxLen (delete's and get_by_ids' argument).
IdSeqs == UNION {[1..n -> Ids] : n \in 0..MaxLen}

\* Optional values: <<>> is Python's None, <<v>> is the value v.
NoneVal == <<>>
Some(v) == <<v>>

\* ------------------------------------------------------ dict primitives
\* dict.update(u): every key of u is set to u's value, the other keys are kept.
DictUpdateKeepOld(d, u) ==
    [i \in (DOMAIN d) \cup (DOMAIN u) |-> IF i \in DOMAIN d THEN d[i] ELSE u[i]]

DictUpdate(d, u) ==
    [i \in (DOMAIN d) \cup (DOMAIN u) |-> IF i \in DOMAIN u THEN u[i] ELSE d[i]]

\* dict.pop(k, None): the value removed (or None) and the dict that is left.
DictPop(d, k) ==
    IF k \in DOMAIN d
    THEN [result |-> Some(d[k]), rest |-> [i \in (DOMAIN d) \ {k} |-> d[i]]]
    ELSE [result |-> NoneVal, rest |-> d]

\* dict.get(k) / dict.get(k, None)
DictGet(d, k) == IF k \in DOMAIN d THEN Some(d[k]) ELSE NoneVal

\* Python truthiness of an optional record: None and the empty mapping are falsy.
Truthy(opt) == opt # NoneVal /\ opt[1] # EmptyRec

\* ------------------------------------------------------ the snapshot file
\* The file is absent, or holds a JSON object written as its members in order.
MissingFile == [exists |-> FALSE, text |-> <<>>]

RECURSIVE DumpMembers(_, _)
DumpMembers(d, order) ==
    IF order = <<>> THEN <<>>
    ELSE (IF Head(order) \in DOMAIN d
          THEN <<[key |-> Head(order), value |-> d[Head(order)]]>>
          ELSE <<>>) \o DumpMembers(d, Tail(order))

\* write_json(data, file_name): the file's content after a successful write.
WriteJson(d) == [exists |-> TRUE, text |-> DumpMembers(d, IdOrder)]

\* json.load of an object: a member's value is that of its last occurrence.
ParseObject(text) ==
    LET keys == {text[k].key : k \in DOMAIN text}
        last(i) == CHOOSE k \in DOMAIN text :
                      /\ text[k].key = i
                      /\ \A m \in DOMAIN text : text[m].key = i => m <= k
    IN  [i \in keys |-> text[last(i)].value]

\* A text is a JSON object when each of its members has a key and a value.
ValidJson(text) == \A k \in DOMAIN text : DOMAIN text[k] = {"key", "value"}

\* A file that is present but is not valid JSON: the text stops after a key.
CorruptFile == [exists |-> TRUE, text |-> <<[key |-> "a"]>>]

\* load_json(file_name): None when the file does not exist; a file that is not
\* valid JSON is recovered as no record set at all.
LoadJson(f) ==
    IF f.exists /\ ValidJson(f.text) THEN Some(ParseObject(f.text)) ELSE NoneVal

\* The file after write_json(d, file_name) on the file f: the write replaces the
\* file as a whole, and a write that fails leaves the file as it was.
FileAfterWriteTorn(f, d, ok) == IF ok THEN WriteJson(d) ELSE CorruptFile
FileAfterWrite(f, d, ok) == IF ok THEN WriteJson(d) ELSE f

\* `load_json(self._file_name) or {}`
LoadedOrEmpty(opt) == IF opt = NoneVal \/ opt[1] = EmptyDict THEN EmptyDict ELSE opt[1]

\* --------------------------------------------------- the Store's pure steps
\* initialize, line 42: the snapshot is read only by the Store whose
\* try_initialize_namespace returned true.
NeedLoadAlways(need_init) == TRUE
NeedLoad(need_init) == need_init

\* initialize, line 45: self._data.update(loaded_data)
MergeLoadedKeepRegion(d, loaded) == DictUpdate(loaded, d)
MergeLoadedReplace(d, loaded) == loaded
MergeLoaded(d, loaded) == DictUpdate(d, loaded)

\* index_done_callback, line 65: the flush runs only when the flag is set.
FlushNeededAlways(flag) == TRUE
FlushNeeded(flag) == flag

\* index_done_callback, lines 66-68: the dict handed to write_json.
DataDictTruthyOnly(d) == [i \in {k \in DOMAIN d : d[k] # EmptyRec} |-> d[i]]
DataDict(d) == d

\* index_done_callback, lines 85-86: clear_all_update_flags runs after write_json
\* has returned; a write_json that raises leaves the flag as it was.
FlagAfterFlushCleared(flag, ok) == FALSE
FlagAfterFlush(flag, ok) == IF ok THEN FALSE ELSE flag

\* get_all, line 95: dict(self._data)
GetAll(d) == d

\* get_by_id, line 99: self._data.get(id)
GetById(d, id) == DictGet(d, id)

\* get_by_ids, lines 103-110: a copy of the record when self._data.get(id) is
\* truthy, None otherwise.
GetByIds(d, ids) ==
    [k \in DOMAIN ids |-> IF Truthy(DictGet(d, ids[k])) THEN Some(d[ids[k]]) ELSE NoneVal]

\* filter_keys, line 114: set(keys) - set(self._data.keys())
FilterKeysKnown(d, keys) == keys \cap DOMAIN d
FilterKeys(d, keys) == keys \ DOMAIN d

\* delete, line 146: `result is not None`
RemovedIfTruthy(result) == Truthy(result)
Removed(result) == result # NoneVal

\* delete, lines 143-147: the loop over ids, from the state (data, any_deleted).
RECURSIVE DeleteLoop(_, _, _)
DeleteLoop(d, any_deleted, ids) ==
    IF ids = <<>> THEN [data |-> d, any_deleted |-> any_deleted]
    ELSE LET popped == DictPop(d, Head(ids))
         IN  DeleteLoop(popped.rest, any_deleted \/ Removed(popped.result), Tail(ids))

\* What the caller of a read holds that is still an object of the region.  The
\* region is a plain dict when the Stores share one process (line 67): get_all
\* copies the dict but not its records, get_by_id hands out the record itself,
\* get_by_ids copies each record.  (When the region is a manager proxy every
\* read hands out copies: those runs are the runs of this model in which no
\* caller changes what it was handed.)
AliasedByGetAll(d) == DOMAIN d
AliasedByGetById(d, id) == {id} \cap DOMAIN d
AliasedByGetByIds(d, ids) == {}

\* A caller's assignment r[f] = v to a record r it holds.
SetField(rec, f, v) == [g \in (DOMAIN rec) \cup {f} |-> IF g = f THEN v ELSE rec[g]]

\* ----------------------------------------------------------------- state
VARIABLES
    data,             \* the namespace's shared region (get_namespace_data)
    storage_updated,  \* the namespace's update flag (get_update_flag)
    initialized,      \* the latch behind try_initialize_namespace
    file,             \* the snapshot file kv_store_<namespace>.json
    init_lock,        \* holder of get_data_init_lock(), 0 when free
    storage_lock,     \* holder of get_storage_lock(), 0 when free
    pc,               \* where each Store's current call stands
    has_data,         \* self._data and self._storage_lock are set
    loaded_data,      \* initialize's local loaded_data
    ret,              \* how the call that returned in the last step ended
    io,               \* what the last step did to the snapshot file
    effect,           \* what the last step did to the region
    held,             \* ids whose records the last read handed out by reference
    restarts,         \* process groups started after the first
    written,          \* history: the region was changed since this group started
    flushed,          \* history: the region at the last written snapshot
    other             \* a second namespace and its Store

vars == <<data, storage_updated, initialized, file, init_lock, storage_lock, pc,
          has_data, loaded_data, ret, io, effect, held, restarts, written,
          flushed, other>>

NoHeld == {}

\* Snapshot files a process group may find when it starts.
InitFiles ==
    {MissingFile, CorruptFile, WriteJson(EmptyDict), WriteJson([a |-> [t |-> 2]]),
     WriteJson([a |-> [t |-> 2], b |-> EmptyRec])}

\* The record sets callers upsert.
UpsertInputs ==
    {EmptyDict, [a |-> [t |-> 1]], [a |-> EmptyRec], [b |-> [t |-> 2]],
     [a |-> [t |-> 2], b |-> [t |-> 1]]}

\* Regions another client of the shared storage may have filled before any Store
\* of the namespace initializes (get_namespace_data creates on first reference).
PreRegions == {[a |-> [t |-> 1]], [a |-> [t |-> 1], b |-> [t |-> 1]]}

\* The second namespace before any Store of it initializes: its region, flag,
\* latch and snapshot file, and its Store's _data/_storage_lock and position.
OtherStart ==
    [region |-> EmptyDict, flag |-> FALSE, latch |-> FALSE, file |-> MissingFile,
     ready |-> FALSE, pc |-> "idle"]

InitWith(regions) ==
    /\ data \in regions
    /\ storage_updated = FALSE
    /\ initialized = FALSE
    /\ file \in InitFiles
    /\ init_lock = 0
    /\ storage_lock = 0
    /\ pc = [p \in Procs |-> "idle"]
    /\ has_data = [p \in Procs |-> FALSE]
    /\ loaded_data = [p \in Procs |-> EmptyDict]
    /\ ret = "none"
    /\ io = "none"
    /\ effect = "none"
    /\ held = NoHeld
    /\ restarts = 0
    /\ written = FALSE
    /\ flushed = NoneVal
    /\ other = OtherStart

Init == InitWith({EmptyDict})

InitPre == InitWith(PreRegions)

Returns(out) == ret' = out

\* A call that fails before it touches anything (the Store has no _storage_lock
\* or _data yet) or that has nothing to do.
Untouched ==
    UNCHANGED <<data, storage_updated, initialized, file, init_lock,
                storage_lock, pc, has_data, loaded_data, restarts, written,
                flushed, other>>
    /\ effect' = "none"

\* ------------------------------------------------------- the storage lock
\* `async with self._storage_lock:` is entered when no Store holds the lock and
\* is left with the lock free.  Nothing inside a block waits for another Store,
\* so a block is one step.
StorageLockFree(lock) == lock = 0

CriticalSection == StorageLockFree(storage_lock) /\ storage_lock' = 0

\* ------------------------------------------------------------ the Registry
\* try_initialize_namespace: true for the first caller of the process group.
TryInitializeNamespace(latch) == ~latch

\* ------------------------------------------------------------- initialize
\* Line 38: `async with get_data_init_lock()` is entered when no Store holds it.
InitLockFreeAlways(lock) == TRUE
InitLockFree(lock) == lock = 0

\* Lines 36-43: inside the init lock the Store claims the namespace, takes the
\* region and, when it claimed, reads the snapshot; it then waits for the
\* storage lock (line 44).  A Store that did not claim returns.
initialize_enter(p) ==
    /\ pc[p] = "idle"
    /\ InitLockFree(init_lock)
    /\ LET need_init == TryInitializeNamespace(initialized)
       IN  /\ initialized' = TRUE
           /\ has_data' = [has_data EXCEPT ![p] = TRUE]
           /\ IF NeedLoad(need_init)
              THEN /\ loaded_data' =
                          [loaded_data EXCEPT ![p] = LoadedOrEmpty(LoadJson(file))]
                   /\ init_lock' = p
                   /\ pc' = [pc EXCEPT ![p] = "init_merge"]
                   /\ io' = "read"
                   /\ ret' = "none"
              ELSE /\ UNCHANGED <<loaded_data, init_lock, pc>>
                   /\ io' = "none"
                   /\ Returns("ok")
    /\ held' = NoHeld
    /\ effect' = "none"
    /\ UNCHANGED <<data, storage_updated, file, storage_lock, restarts,
                   written, flushed, other>>

\* Lines 44-45: the merge is not followed by set_all_update_flags, so the flag
\* stays as it was.
FlagAfterMergeSet(flag) == TRUE
FlagAfterMerge(flag) == flag

\* Lines 44-61: under the storage lock the loaded records are merged into the
\* region; both locks are released and initialize returns.
initialize_merge(p) ==
    /\ pc[p] = "init_merge"
    /\ CriticalSection
    /\ data' = MergeLoaded(data, loaded_data[p])
    /\ storage_updated' = FlagAfterMerge(storage_updated)
    /\ loaded_data' = [loaded_data EXCEPT ![p] = EmptyDict]
    /\ init_lock' = 0
    /\ pc' = [pc EXCEPT ![p] = "idle"]
    /\ Returns("ok")
    /\ io' = "none"
    /\ effect' = "merge"
    /\ held' = NoHeld
    /\ UNCHANGED <<initialized, file, has_data, restarts, written, flushed,
                   other>>

\* ---------------------------------------------------- index_done_callback
\* Lines 64-86 on a Store that has its lock and region; ok says whether
\* write_json succeeds.
FlushRaises(ok) == FlushNeeded(storage_updated) /\ ~ok

FlushEffect(ok) ==
    /\ CriticalSection
    /\ IF FlushNeeded(storage_updated)
       THEN /\ file' = FileAfterWrite(file, DataDict(data), ok)
            /\ storage_updated' = FlagAfterFlush(storage_updated, ok)
            /\ io' = IF ok THEN "write_ok" ELSE "write_fail"
            /\ flushed' = IF ok THEN Some(data) ELSE flushed
       ELSE /\ UNCHANGED <<file, storage_updated, flushed>>
            /\ io' = "none"

index_done_callback(p, ok) ==
    /\ pc[p] = "idle"
    /\ IF has_data[p]
       THEN /\ FlushEffect(ok)
            /\ Returns(IF FlushRaises(ok) THEN "raised" ELSE "ok")
            /\ effect' = "none"
            /\ UNCHANGED <<data, initialized, init_lock, pc, has_data,
                           loaded_data, restarts, written, other>>
       ELSE /\ Untouched
            /\ Returns("raised")
            /\ io' = "none"
    /\ held' = NoHeld

\* ------------------------------------------------------------------ reads
ReadCall(p, aliased) ==
    /\ pc[p] = "idle"
    /\ has_data[p] => StorageLockFree(storage_lock)
    /\ Untouched
    /\ io' = "none"
    /\ IF has_data[p]
       THEN Returns("ok") /\ held' = aliased
       ELSE Returns("raised") /\ held' = NoHeld

get_all(p) == ReadCall(p, AliasedByGetAll(data))

get_by_id(p, id) == ReadCall(p, AliasedByGetById(data, id))

get_by_ids(p, ids) == ReadCall(p, AliasedByGetByIds(data, ids))

filter_keys(p, keys) == ReadCall(p, {})

\* The caller changes a field of a record it was handed by its last read.
mutate_returned(id, f, v) ==
    /\ id \in held
    /\ id \in DOMAIN data
    /\ data' = [data EXCEPT ![id] = SetField(@, f, v)]
    /\ written' = TRUE
    /\ io' = "none"
    /\ effect' = "assign"
    /\ UNCHANGED <<storage_updated, initialized, file, init_lock,
                   storage_lock, pc, has_data, loaded_data, held, restarts,
                   flushed, other>>
    /\ ret' = "none"

\* ----------------------------------------------------------------- writes
\* Lines 116-127.
upsert(p, d) ==
    /\ pc[p] = "idle"
    /\ IF d = EmptyDict
       THEN Untouched /\ Returns("ok")
       ELSE IF ~has_data[p]
       THEN Untouched /\ Returns("raised")
       ELSE /\ CriticalSection
            /\ data' = DictUpdate(data, d)
            /\ storage_updated' = TRUE
            /\ written' = TRUE
            /\ effect' = "update"
            /\ Returns("ok")
            /\ UNCHANGED <<initialized, file, init_lock, pc, has_data,
                           loaded_data, restarts, flushed, other>>
    /\ io' = "none"
    /\ held' = NoHeld

\* Lines 129-150.
delete(p, ids) ==
    /\ pc[p] = "idle"
    /\ IF ~has_data[p]
       THEN Untouched /\ Returns("raised")
       ELSE LET r == DeleteLoop(data, FALSE, ids)
            IN  /\ CriticalSection
                /\ data' = r.data
                /\ storage_updated' = (storage_updated \/ r.any_deleted)
                /\ written' = (written \/ r.data # data)
                /\ effect' = IF r.data # data THEN "pop" ELSE "none"
                /\ Returns("ok")
                /\ UNCHANGED <<initialized, file, init_lock, pc,
                               has_data, loaded_data, restarts, flushed, other>>
    /\ io' = "none"
    /\ held' = NoHeld

\* drop, line 239 to line 241: the `async with` block has ended, the storage
\* lock is free again before index_done_callback asks for it.
LockAfterDropClearHeld(p) == p
LockAfterDropClear(p) == 0

\* drop, lines 236-239: the region is cleared and flagged under the storage
\* lock, which is released before index_done_callback takes it again.  A Store
\* without its lock fails inside the try and reports the error (lines 244-246).
drop_clear(p) ==
    /\ pc[p] = "idle"
    /\ IF ~has_data[p]
       THEN Untouched /\ Returns("error")
       ELSE /\ StorageLockFree(storage_lock)
            /\ storage_lock' = LockAfterDropClear(p)
            /\ data' = EmptyDict
            /\ storage_updated' = TRUE
            /\ written' = TRUE
            /\ effect' = "clear"
            /\ pc' = [pc EXCEPT ![p] = "drop_flush"]
            /\ ret' = "none"
            /\ UNCHANGED <<initialized, file, init_lock, has_data,
                           loaded_data, restarts, flushed, other>>
    /\ io' = "none"
    /\ held' = NoHeld

\* drop, lines 241-246: the flush, and the outcome returned.
drop_flush(p, ok) ==
    /\ pc[p] = "drop_flush"
    /\ FlushEffect(ok)
    /\ Returns(IF FlushRaises(ok) THEN "error" ELSE "success")
    /\ effect' = "none"
    /\ pc' = [pc EXCEPT ![p] = "idle"]
    /\ held' = NoHeld
    /\ UNCHANGED <<data, initialized, init_lock, has_data, loaded_data,
                   restarts, written, other>>

\* --------------------------------------------------------------- finalize
\* Line 252: only a namespace whose name ends in "cache" is flushed.
FinalizeFlushesNever(cache) == FALSE
FinalizeFlushes(cache) == cache

\* Lines 248-253; cache says whether the namespace's name ends in "cache"
\* (nothing else in the Store depends on the name).  On a cache namespace
\* finalize runs index_done_callback, whose failure it does not catch.
\* self._data and self._storage_lock are left as they are.
finalize(p, cache, ok) ==
    /\ pc[p] = "idle"
    /\ IF FinalizeFlushes(cache) /\ has_data[p]
       THEN /\ FlushEffect(ok)
            /\ Returns(IF FlushRaises(ok) THEN "raised" ELSE "finalized")
            /\ effect' = "none"
            /\ UNCHANGED <<data, initialized, init_lock, pc, has_data,
                           loaded_data, restarts, written, other>>
       ELSE /\ Untouched
            /\ Returns(IF FinalizeFlushes(cache) THEN "raised" ELSE "finalized")
            /\ io' = "none"
    /\ held' = NoHeld

\* ------------------------------------------------------------ environment
\* The process group ends (at any point) and a new one starts: the shared
\* storage is new, the snapshot file is what the old group left.
restart ==
    /\ restarts < MaxRestarts
    /\ restarts' = restarts + 1
    /\ data' = EmptyDict
    /\ storage_updated' = FALSE
    /\ initialized' = FALSE
    /\ init_lock' = 0
    /\ storage_lock' = 0
    /\ pc' = [p \in Procs |-> "idle"]
    /\ has_data' = [p \in Procs |-> FALSE]
    /\ loaded_data' = [p \in Procs |-> EmptyDict]
    /\ ret' = "none"
    /\ io' = "none"
    /\ effect' = "none"
    /\ held' = NoHeld
    /\ written' = FALSE
    /\ UNCHANGED <<file, flushed, other>>

\* One step of Store p's own operations.
StoreOp(p) ==
    \/ initialize_enter(p)
    \/ initialize_merge(p)
    \/ \E ok \in BOOLEAN : index_done_callback(p, ok)
    \/ get_all(p)
    \/ \E id \in Ids : get_by_id(p, id)
    \/ \E ids \in {<<"a", "b">>, <<"b", "b">>} : get_by_ids(p, ids)
    \/ \E keys \in {{"a"}, Ids} : filter_keys(p, keys)
    \/ \E d \in UpsertInputs : upsert(p, d)
    \/ \E ids \in IdSeqs : delete(p, ids)
    \/ drop_clear(p)
    \/ \E ok \in BOOLEAN : drop_flush(p, ok)
    \/ \E cache \in BOOLEAN, ok \in BOOLEAN : finalize(p, cache, ok)

Next ==
    \/ \E p \in Procs : StoreOp(p)
    \/ \E id \in Ids, f \in Fields, v \in Vals : mutate_returned(id, f, v)
    \/ restart

Spec == Init /\ [][Next]_vars

SpecPre == InitPre /\ [][Next]_vars

\* ================================================================ claims
\* Every Store of the process group has returned from initialize().
AllReturned == \A p \in Procs : has_data[p] /\ pc[p] = "idle"

\* The step is Store p's checkpoint() (index_done_callback) on a Store that has
\* been initialized, with write_json succeeding (ok) or raising.
CheckpointStep(p, ok) == has_data[p] /\ index_done_callback(p, ok)

\* C1: when N Stores initialize the same empty namespace, exactly one reads the
\* snapshot file (the one that finds the latch unset: the read happens in the
\* step that sets the latch, every step that sets the latch reads, and the
\* latch stays set for the life of the process group), and once all N have
\* returned, and before anything is written, get_all() is exactly the file's
\* record set.
C1_ExactlyOnceInit ==
    /\ [][io' = "read" => (~initialized /\ initialized')]_vars
    /\ [][(~initialized /\ initialized') => io' = "read"]_vars
    /\ [][(initialized /\ restarts' = restarts) => initialized']_vars
    /\ [](AllReturned /\ ~written => GetAll(data) = LoadedOrEmpty(LoadJson(file)))

C1_Witness ==
    /\ AllReturned
    /\ ~written
    /\ restarts = 0
    /\ file = WriteJson([a |-> [t |-> 2], b |-> EmptyRec])
    /\ GetAll(data) = [a |-> [t |-> 2], b |-> EmptyRec]

C3_FailedFlushKeepsFlag ==
    /\ [][\A p \in Procs :
             (CheckpointStep(p, FALSE) /\ storage_updated) =>
                 /\ ret' = "raised"
                 /\ storage_updated'
                 /\ data' = data]_vars
    /\ [][\A p \in Procs :
             (CheckpointStep(p, TRUE) /\ storage_updated) =>
                 /\ ret' = "ok"
                 /\ ~storage_updated']_vars
    /\ [][(storage_updated /\ ~storage_updated' /\ restarts' = restarts) =>
             io' = "write_ok"]_vars

C3_Witness ==
    /\ io = "write_fail"
    /\ ret = "raised"
    /\ storage_updated
    /\ data # EmptyDict

\* C4 (as claimed): every operation keeps the storage lock from its first access
\* to its last, so while Store p is between drop()'s clear and drop()'s flush no
\* operation of another Store changes the region, the flag or the file.
C4_DropIsOneCriticalSection ==
    [][\A p \in Procs :
          pc[p] = "drop_flush" =>
              \A q \in Procs \ {p} :
                  StoreOp(q) => UNCHANGED <<data, storage_updated, file>>]_vars

\* C5 (as claimed): a drop() that returns success has left the region empty and
\* the snapshot file holding the empty record set.
C5_DropSuccessLeavesEmpty ==
    [][\A p \in Procs :
          ((\E ok \in BOOLEAN : drop_flush(p, ok)) /\ ret' = "success") =>
              /\ data' = EmptyDict
              /\ file' = WriteJson(EmptyDict)]_vars

\* C6 (as claimed): drop() never raises but returns "success" or "error", and
\* after an error caused by a failed flush the region is empty and the flag is
\* still set.
C6_DropErrorLeavesEmptyFlagged ==
    /\ [][\A p \in Procs :
             (drop_clear(p) \/ \E ok \in BOOLEAN : drop_flush(p, ok)) =>
                 ret' \in {"none", "success", "error"}]_vars
    /\ [][\A p \in Procs :
             (drop_flush(p, FALSE) /\ ret' = "error" /\ io' = "write_fail") =>
                 /\ data' = EmptyDict
                 /\ storage_updated']_vars

\* The last step was a checkpoint() that tried to write the snapshot.
CheckpointJustFlushed == io \in {"write_ok", "write_fail"} /\ ret \in {"ok", "raised"}

\* C7 (as claimed): checkpoint() on a clear flag writes nothing and changes
\* nothing, and of two checkpoint() calls in a row only the first can write
\* (stated for two calls with no step at all between them, the first of which
\* tried to write).
C7_OnlyFirstWrites ==
    /\ [][\A p \in Procs, ok \in BOOLEAN :
             (CheckpointStep(p, ok) /\ ~storage_updated) =>
                 io' = "none" /\ UNCHANGED <<data, storage_updated, file>>]_vars
    /\ [][\A p \in Procs, ok \in BOOLEAN :
             (CheckpointStep(p, ok) /\ CheckpointJustFlushed) =>
                 io' # "write_ok"]_vars

\* C7 (amended): checkpoint() on a clear flag writes nothing and changes
\* nothing; a step that wrote the snapshot leaves the flag clear, and the flag
\* is set again only by a write operation that changed the region; so a
\* checkpoint() that follows one that returned, with no write operation between
\* them, does not write.  (After a checkpoint() that raised, the flag is still
\* set and the next checkpoint() writes: C3.)
C7_Coalescing ==
    /\ [][\A p \in Procs, ok \in BOOLEAN :
             (CheckpointStep(p, ok) /\ ~storage_updated) =>
                 io' = "none" /\ UNCHANGED <<data, storage_updated, file>>]_vars
    /\ [][io' = "write_ok" => ~storage_updated']_vars
    /\ [][(~storage_updated /\ storage_updated') =>
             effect' \in {"update", "pop", "clear"}]_vars
    /\ [][\A p \in Procs, ok \in BOOLEAN :
             (CheckpointStep(p, ok) /\ io = "write_ok") => io' = "none"]_vars

\* A checkpoint() has just written the snapshot of a region that is not empty.
C7_Witness ==
    /\ io = "write_ok"
    /\ ret = "ok"
    /\ ~storage_updated
    /\ data # EmptyDict
    /\ file = WriteJson(data)

\* C8: upsert(R) leaves get(id) = R[id] for every id of R; a checkpoint() that
\* writes leaves a file that loads as the region it wrote; and the Stores of a
\* process group started afterwards find, once the namespace is loaded and
\* before anything is written, get_all() equal to the region at the time of the
\* last written checkpoint.
C8_RoundTrip ==
    /\ [][\A p \in Procs, d \in UpsertInputs :
             (has_data[p] /\ upsert(p, d)) =>
                 \A id \in DOMAIN d : GetById(data', id) = Some(d[id])]_vars
    /\ [][\A p \in Procs :
             (CheckpointStep(p, TRUE) /\ storage_updated) =>
                 /\ flushed' = Some(data)
                 /\ LoadJson(file') = Some(data)]_vars
    /\ []((restarts > 0 /\ ~written /\ initialized /\ init_lock = 0
              /\ flushed # NoneVal) =>
             /\ GetAll(data) = flushed[1]
             /\ \A id \in DOMAIN flushed[1] : GetById(data, id) = Some(flushed[1][id]))

C8_Witness ==
    /\ restarts > 0
    /\ ~written
    /\ effect = "merge"
    /\ flushed # NoneVal
    /\ flushed[1] # EmptyDict
    /\ \E id \in DOMAIN flushed[1] : flushed[1][id] = EmptyRec
    /\ GetAll(data) = flushed[1]

\* C9 (as claimed): whatever a caller does to a value a read returned, the
\* region and the flag are unchanged; the region changes only through upsert,
\* delete and drop (and the merge of initialize).
C9_ReadsReturnCopies ==
    /\ [][\A id \in Ids, f \in Fields, v \in Vals :
             mutate_returned(id, f, v) => UNCHANGED <<data, storage_updated>>]_vars
    /\ [][(data' # data /\ restarts' = restarts) =>
             effect' \in {"update", "pop", "clear", "merge"}]_vars

\* C10: delete(ids) removes exactly the listed ids that are present and sets
\* the flag if and only if one of them was present: with none present the
\* region and the flag are unchanged, with one present the flag is set.
C10_DeleteFlagsIffRemoved ==
    [][\A p \in Procs, ids \in IdSeqs :
          (has_data[p] /\ delete(p, ids)) =>
              LET listed == {ids[k] : k \in DOMAIN ids}
                  present == listed \cap DOMAIN data
              IN  /\ data' = [i \in (DOMAIN data) \ listed |-> data[i]]
                  /\ storage_updated' = (storage_updated \/ present # {})
                  /\ (present = {} => data' = data)]_vars

\* A delete has just removed an id and the flag is set.
C10_Witness ==
    /\ effect = "pop"
    /\ ret = "ok"
    /\ storage_updated

\* C11: upsert(records) with a non-empty mapping leaves get(id) = records[id]
\* for every id of records, leaves every other id of the region as it was and
\* sets the flag; upsert with the empty mapping changes neither the region nor
\* the flag.
C11_UpsertSetsAndFlags ==
    [][\A p \in Procs, d \in UpsertInputs :
          (has_data[p] /\ upsert(p, d)) =>
              IF d = EmptyDict
              THEN UNCHANGED <<data, storage_updated>>
              ELSE /\ \A id \in DOMAIN d : GetById(data', id) = Some(d[id])
                   /\ \A id \in Ids \ DOMAIN d : GetById(data', id) = GetById(data, id)
                   /\ storage_updated']_vars

\* An upsert of b has just left the a of an earlier upsert in place.
C11_Witness ==
    /\ effect = "update"
    /\ ret = "ok"
    /\ storage_updated
    /\ data = [a |-> [t |-> 1], b |-> [t |-> 2]]

\* C12 (as claimed): for a Store that has been initialized, get_many(ids) has
\* the length and order of ids and its i-th element is get(ids[i]): the record
\* stored under ids[i], the empty record included, or absent.
C12_GetManyIsGetEach ==
    (\E p \in Procs : has_data[p] /\ pc[p] = "idle") =>
        \A ids \in IdSeqs :
            GetByIds(data, ids) = [k \in DOMAIN ids |-> GetById(data, ids[k])]

\* Store p's call of a read, a write or checkpoint().
ReadWriteOrCheckpoint(p) ==
    \/ get_all(p)
    \/ \E id \in Ids : get_by_id(p, id)
    \/ \E ids \in {<<"a", "b">>, <<"b", "b">>} : get_by_ids(p, ids)
    \/ \E keys \in {{"a"}, Ids} : filter_keys(p, keys)
    \/ \E d \in UpsertInputs : upsert(p, d)
    \/ \E ids \in IdSeqs : delete(p, ids)
    \/ drop_clear(p)
    \/ \E ok \in BOOLEAN : index_done_callback(p, ok)

\* C13 (as claimed): a read, a write or checkpoint() on a Store that has not
\* been initialized fails to its caller (it raises, or for drop reports an
\* error) and leaves the region, the flag and the file unchanged.
C13_UninitializedOpsFail ==
    [][\A p \in Procs :
          (~has_data[p] /\ ReadWriteOrCheckpoint(p)) =>
              /\ ret' \in {"raised", "error"}
              /\ UNCHANGED <<data, storage_updated, file>>]_vars

\* After this state Store p can call upsert and have it succeed: the call
\* returns normally, changes the region and sets the flag.
UpsertSucceeds(p) ==
    ENABLED (/\ upsert(p, [a |-> [t |-> 1], b |-> [t |-> 2]])
             /\ ret' = "ok"
             /\ effect' = "update"
             /\ storage_updated')

\* C14 (as claimed): when finalize() has returned on a Store that was Ready,
\* the Store has released its references (self._data, self._storage_lock) and
\* no operation called on it afterwards succeeds or changes the region, the
\* flag or the file.
C14_NothingAfterFinalize ==
    [][\A p \in Procs, cache \in BOOLEAN, ok \in BOOLEAN :
          (has_data[p] /\ finalize(p, cache, ok) /\ ret' = "finalized") =>
              /\ ~has_data'[p]
              /\ ~UpsertSucceeds(p)']_vars

NothingToLoad == LoadJson(file) = NoneVal

\* C16: initialize() on a namespace whose file is missing or is not valid JSON
\* does not fail: the Store that claims the load takes the loaded record set
\* to be empty, its merge leaves the region as it was and it returns normally
\* with its region and lock set; no step of initialize raises, and a Store that
\* initializes the namespace later returns normally as well.
C16_MissingOrCorruptFileIsEmpty ==
    /\ [][\A p \in Procs :
             (initialize_enter(p) /\ ~initialized /\ NothingToLoad) =>
                 /\ loaded_data'[p] = EmptyDict
                 /\ pc'[p] = "init_merge"
                 /\ has_data'[p]]_vars
    /\ [][\A p \in Procs :
             (initialize_merge(p) /\ NothingToLoad) =>
                 /\ data' = data
                 /\ ret' = "ok"
                 /\ pc'[p] = "idle"
                 /\ has_data'[p]]_vars
    /\ [][\A p \in Procs :
             (initialize_enter(p) /\ initialized) =>
                 /\ ret' = "ok"
                 /\ pc'[p] = "idle"
                 /\ has_data'[p]
                 /\ data' = data]_vars
    /\ [][\A p \in Procs :
             (initialize_enter(p) \/ initialize_merge(p)) =>
                 ret' \in {"none", "ok"}]_vars

\* The Store that claimed the load has returned from initialize on a file that
\* is not valid JSON, and the region still holds what it held before.
C16_Witness ==
    /\ effect = "merge"
    /\ ret = "ok"
    /\ file = CorruptFile
    /\ data = [a |-> [t |-> 1]]
    /\ \E p \in Procs : has_data[p] /\ pc[p] = "idle"

\* C17: the snapshot file is replaced as a whole: a step changes the file only
\* by a write that succeeds, and the file is then the complete serialisation of
\* the region; a write that fails, and the end of the process group at any
\* point, leave the file as it was; so from the first successful flush on the
\* file always loads as the region of the last successful flush.
C17_SnapshotNeverPartial ==
    /\ [][file' # file =>
             /\ io' = "write_ok"
             /\ file' = WriteJson(data)
             /\ ValidJson(file'.text)
             /\ LoadJson(file') = Some(data)]_vars
    /\ [][(io' = "write_fail" \/ restarts' # restarts) => file' = file]_vars
    /\ [](flushed # NoneVal => LoadJson(file) = flushed)

\* A write has just failed on a region that differs from the last flush, whose
\* complete content the file still holds.
C17_Witness ==
    /\ io = "write_fail"
    /\ flushed # NoneVal
    /\ flushed[1] # EmptyDict
    /\ data # flushed[1]
    /\ file = WriteJson(flushed[1])

\* C18: filter_unknown(ids) is exactly the set difference of ids and the key
\* set of the region: an id is in the result if and only if it is in ids and
\* get(id) finds nothing in the region (an id stored with an empty record is
\* known); the call leaves the region and the flag unchanged.
C18_FilterKeysIsDifference ==
    /\ [](\A keys \in SUBSET Ids :
             /\ FilterKeys(data, keys) \subseteq keys
             /\ \A id \in keys :
                    id \in FilterKeys(data, keys) <=> GetById(data, id) = NoneVal)
    /\ [][\A p \in Procs, keys \in SUBSET Ids :
             filter_keys(p, keys) => UNCHANGED <<data, storage_updated, file>>]_vars

\* A filter_keys has returned on a region that holds a (with an empty record)
\* and not b: asked about both ids it answers b.
C18_Witness ==
    /\ ret = "ok"
    /\ effect = "none"
    /\ io = "none"
    /\ held = NoHeld
    /\ data = [a |-> EmptyRec]
    /\ FilterKeys(data, Ids) = {"b"}

\* The namespace is loaded and no Store is inside initialize or drop.
Quiescent == initialized /\ init_lock = 0 /\ \A p \in Procs : pc[p] = "idle"

\* C19 (as claimed): in every state in which no operation is under way, a clear
\* flag means that the region is the content of the snapshot file (nothing, if
\* there is no file to load): no change of the region is left unflagged.
C19_CleanFlagMeansFlushed ==
    (Quiescent /\ ~storage_updated) => data = LoadedOrEmpty(LoadJson(file))

\* Store p has returned from initialize().
Ready(p) == has_data[p] /\ pc[p] # "init_merge"

\* C20: no Store is Ready while the load of the namespace is under way: a Store
\* that does not claim the load returns from initialize() only when the init
\* lock is free, that is after the claiming Store's merge; a read through a
\* Ready Store never happens during the load, and before anything is written
\* it finds the region holding the file's record set.
C20_NoReadyBeforeLoad ==
    /\ []((\E p \in Procs : Ready(p)) => (initialized /\ init_lock = 0))
    /\ [][\A p \in Procs :
             (initialize_enter(p) /\ initialized) =>
                 (init_lock = 0 /\ ret' = "ok" /\ Ready(p)')]_vars
    /\ [][\A p \in Procs :
             (has_data[p] /\ (get_all(p) \/ \E id \in Ids : get_by_id(p, id))) =>
                 /\ init_lock = 0
                 /\ ~written => GetAll(data) = LoadedOrEmpty(LoadJson(file))]_vars

\* Both Stores are Ready, the second without loading, on a namespace whose
\* file held one record, and a read has just returned.
C20_Witness ==
    /\ \A p \in Procs : Ready(p)
    /\ init_lock = 0
    /\ ~written
    /\ ret = "ok"
    /\ effect = "none"
    /\ held = {"a"}
    /\ file = WriteJson([a |-> [t |-> 2]])
    /\ GetAll(data) = [a |-> [t |-> 2]]

\* The step is part of Store p's initialize().
InitializeStep(p) == initialize_enter(p) \/ initialize_merge(p)

\* C24: initialize() never marks the namespace dirty and never writes the
\* snapshot file, whether or not the Store claims the load: no step of
\* initialize changes the flag or the file or writes; once every Store has
\* returned from initialize and nothing has been written, the flag is false;
\* and a checkpoint() at that point writes nothing.
C24_InitializeLeavesClean ==
    /\ [][\A p \in Procs :
             InitializeStep(p) =>
                 /\ storage_updated' = storage_updated
                 /\ file' = file
                 /\ io' \in {"none", "read"}]_vars
    /\ []((AllReturned /\ ~written) => ~storage_updated)
    /\ [][\A p \in Procs, ok \in BOOLEAN :
             (CheckpointStep(p, ok) /\ AllReturned /\ ~written) =>
                 (io' = "none" /\ file' = file /\ ~storage_updated')]_vars

\* Every Store initialized a namespace whose snapshot holds a record, nothing
\* was written, and a checkpoint has just returned without touching the file.
C24_Witness ==
    /\ AllReturned
    /\ ~written
    /\ restarts = 0
    /\ ~storage_updated
    /\ flushed = NoneVal
    /\ ret = "ok"
    /\ io = "none"
    /\ effect = "none"
    /\ held = NoHeld
    /\ file = WriteJson([a |-> [t |-> 2]])
    /\ data = [a |-> [t |-> 2]]

\* Scheduling: a call that is under way and whose next step can be taken does
\* take it (the event loop resumes every coroutine whose lock has come free).
\* Nothing forces a caller to start a call, and nothing forces a restart.
Fairness ==
    \A p \in Procs :
        /\ WF_vars(initialize_merge(p))
        /\ WF_vars(\E ok \in BOOLEAN : drop_flush(p, ok))

SpecFair == Init /\ [][Next]_vars /\ Fairness

\* C23: no deadlock and no self-deadlock: under fair scheduling every call that
\* is under way (initialize between its two locks, drop between its clear and
\* its flush) returns in every interleaving; the init lock, which initialize
\* takes before the storage lock, is always given back, so a waiting
\* initialize gets in; and the storage lock is free whenever no locked block is
\* running (drop has released it before its flush asks for it, and no Store
\* holds it while it waits for anything), so every other call runs and returns
\* in the step it is scheduled.
C23_EveryCallReturns ==
    /\ \A p \in Procs : (pc[p] # "idle") ~> (pc[p] = "idle")
    /\ (init_lock # 0) ~> (init_lock = 0)
    /\ [](StorageLockFree(storage_lock))
    /\ [](init_lock # 0 => pc[init_lock] = "init_merge")

\* A drop has just returned after its flush took the storage lock a second
\* time, with every Store initialized and no lock held.
C23_Witness ==
    /\ ret = "success"
    /\ io = "write_ok"
    /\ AllReturned
    /\ init_lock = 0
    /\ storage_lock = 0
    /\ data = EmptyDict
    /\ file = WriteJson(EmptyDict)

\* ======================================================= a second namespace
\* The Stores of Procs serve the namespace ThisNs; one more Store, OtherStore,
\* serves the namespace OtherNs in the same process group.
ThisNs == "text_chunks"

OtherNs == "full_docs"

OtherStore == NumProcs + 1

\* Lines 37, 40, 41, 86, 127: the flag, the latch and the region are asked of
\* the shared storage under self.namespace.
RegistryKeyShared(ns) == ThisNs
RegistryKey(ns) == ns

\* Line 29: the snapshot file is named after the namespace.
FileName(ns) == ns

\* What the shared storage and the disk hold under a name.
RegionAt(k) == IF k = ThisNs THEN data ELSE other.region

FlagAt(k) == IF k = ThisNs THEN storage_updated ELSE other.flag

LatchAt(k) == IF k = ThisNs THEN initialized ELSE other.latch

FileAt(k) == IF k = ThisNs THEN file ELSE other.file

\* OtherStore leaves the region reg, the flag flg and the latch lat under its
\* registry name and the file fil under its file name, and is itself at npc.
OtherCommit(reg, flg, lat, fil, npc) ==
    LET rk == RegistryKey(OtherNs)
        fk == FileName(OtherNs)
    IN  /\ data' = IF rk = ThisNs THEN reg ELSE data
        /\ storage_updated' = IF rk = ThisNs THEN flg ELSE storage_updated
        /\ initialized' = IF rk = ThisNs THEN lat ELSE initialized
        /\ file' = IF fk = ThisNs THEN fil ELSE file
        /\ other' = [region |-> IF rk = ThisNs THEN other.region ELSE reg,
                     flag |-> IF rk = ThisNs THEN other.flag ELSE flg,
                     latch |-> IF rk = ThisNs THEN other.latch ELSE lat,
                     file |-> IF fk = ThisNs THEN other.file ELSE fil,
                     ready |-> TRUE,
                     pc |-> npc]
        /\ UNCHANGED <<init_lock, pc, has_data, loaded_data, ret, io, effect,
                       held, restarts, written, flushed>>

\* Lines 34-61 on OtherStore, in one step: it needs the init lock and, when it
\* claims the load, the storage lock.
other_initialize ==
    LET rk == RegistryKey(OtherNs)
        need_init == TryInitializeNamespace(LatchAt(rk))
        loaded == LoadedOrEmpty(LoadJson(FileAt(FileName(OtherNs))))
    IN  /\ other.pc = "idle"
        /\ InitLockFree(init_lock)
        /\ NeedLoad(need_init) => StorageLockFree(storage_lock)
        /\ UNCHANGED storage_lock
        /\ OtherCommit(IF NeedLoad(need_init)
                       THEN MergeLoaded(RegionAt(rk), loaded)
                       ELSE RegionAt(rk),
                       FlagAfterMerge(FlagAt(rk)), TRUE,
                       FileAt(FileName(OtherNs)), "idle")

\* Lines 125-126 on OtherStore: the storage lock is taken and the records are
\* written into the region; the Store then awaits set_all_update_flags.
other_upsert_update(d) ==
    LET rk == RegistryKey(OtherNs)
    IN  /\ other.ready
        /\ other.pc = "idle"
        /\ StorageLockFree(storage_lock)
        /\ storage_lock' = OtherStore
        /\ OtherCommit(DictUpdate(RegionAt(rk), d), FlagAt(rk), LatchAt(rk),
                       FileAt(FileName(OtherNs)), "upsert_flag")

\* Line 127 on OtherStore: the flag is set and the storage lock released.
other_upsert_flag ==
    LET rk == RegistryKey(OtherNs)
    IN  /\ other.pc = "upsert_flag"
        /\ storage_lock' = 0
        /\ OtherCommit(RegionAt(rk), TRUE, LatchAt(rk),
                       FileAt(FileName(OtherNs)), "idle")

\* Lines 64-86 on OtherStore.
other_index_done_callback(ok) ==
    LET rk == RegistryKey(OtherNs)
        fk == FileName(OtherNs)
    IN  /\ other.ready
        /\ other.pc = "idle"
        /\ CriticalSection
        /\ IF FlushNeeded(FlagAt(rk))
           THEN OtherCommit(RegionAt(rk), FlagAfterFlush(FlagAt(rk), ok),
                            LatchAt(rk),
                            FileAfterWrite(FileAt(fk), DataDict(RegionAt(rk)), ok),
                            "idle")
           ELSE OtherCommit(RegionAt(rk), FlagAt(rk), LatchAt(rk), FileAt(fk),
                            "idle")

\* The record sets written to the second namespace.
OtherInputs == {[a |-> [t |-> 2]]}

OtherOp ==
    \/ other_initialize
    \/ \E d \in OtherInputs : other_upsert_update(d)
    \/ other_upsert_flag
    \/ \E ok \in BOOLEAN : other_index_done_callback(ok)

NextNs ==
    \/ \E p \in Procs : StoreOp(p)
    \/ OtherOp

SpecNs == Init /\ [][NextNs]_vars

\* C21 (as claimed): operations on different namespaces are not coupled by
\* locking: while the Store of the second namespace is inside its critical
\* section (upsert, between the update of the region and the setting of the
\* flag), every idle, initialized Store of the first namespace can still enter
\* a critical section of its own (get_all) without waiting.
C21_NoLockCoupling ==
    (other.pc = "upsert_flag") =>
        \A p \in Procs : (has_data[p] /\ pc[p] = "idle") => ENABLED get_all(p)

\* What the shared storage and the disk hold for the second namespace.
OtherShared == <<other.region, other.flag, other.latch, other.file>>

\* C22: namespaces are isolated in state: no operation of a Store of the first
\* namespace changes the region, the flag, the latch or the snapshot file of
\* the second namespace, and no operation of the Store of the second namespace
\* changes those of the first.
C22_NamespacesIsolated ==
    /\ [][(\E p \in Procs : StoreOp(p)) => OtherShared' = OtherShared]_vars
    /\ [][OtherOp => UNCHANGED <<data, storage_updated, initialized, file>>]_vars

\* Both namespaces were initialized, written and flushed, and hold different
\* records under the same id, each in its own region and its own file.
C22_Witness ==
    /\ AllReturned
    /\ other.ready /\ other.latch /\ other.pc = "idle"
    /\ data = [a |-> [t |-> 1]]
    /\ other.region = [a |-> [t |-> 2]]
    /\ file = WriteJson(data)
    /\ other.file = WriteJson(other.region)
    /\ ~storage_updated
    /\ ~other.flag

====
